---- MODULE Spec2Model ----
(***************************************************************************)
(* A model of QuizSolver.solve_quiz (src/quiz_solver.py) and of the        *)
(* methods it calls: one solve session of one QuizSolver object, as        *)
(* app.py creates it (a fresh QuizSolver per request).                     *)
(*                                                                         *)
(* Python values: a str is a TLA+ string, None is the value None below,    *)
(* a dict is a function from its keys, an exception is named by its class. *)
(* Time is in whole seconds; the clock reads 0 when the object is built.   *)
(***************************************************************************)
EXTENDS Integers, Sequences, FiniteSets, TLC

\* ------------------------------------------------------------ bounds

\* the largest max_retries a caller passes
MaxRetriesArg == 3

\* how long a slow blocking call (GET, render, LLM, POST) takes, in seconds
LongCall == 85

\* ------------------------------------------------- program constants

\* solve_quiz: "(time.time() - start_time) < 170"
Budget == 170

\* solve_quiz: "time.sleep(2 ** attempt)"
BackoffBase == 2

\* ------------------------------------------------------ python values

None == "<None>"

\* bool(v) of a str or None
Truthy(v) == v # None /\ v # ""

\* a or b
PyOr(a, b) == IF Truthy(a) THEN a ELSE b

\* d.get(k) of a dict d
Get(d, k) == IF k \in DOMAIN d THEN d[k] ELSE None

\* s.startswith(p)
StartsWith(s, p) == Len(s) >= Len(p) /\ SubSeq(s, 1, Len(p)) = p

\* p in s (from position lo on)
ContainsFrom(s, p, lo) ==
    \E i \in lo..(Len(s) - Len(p) + 1) : SubSeq(s, i, i + Len(p) - 1) = p

\* s.find(p) + 1, and 0 when p is not in s
Find(s, p) ==
    IF ContainsFrom(s, p, 1)
    THEN CHOOSE i \in 1..(Len(s) - Len(p) + 1) :
            /\ SubSeq(s, i, i + Len(p) - 1) = p
            /\ \A j \in 1..(i - 1) : SubSeq(s, j, j + Len(p) - 1) # p
    ELSE 0

RECURSIVE LStrip(_)
LStrip(s) == IF Len(s) > 0 /\ SubSeq(s, 1, 1) = " "
             THEN LStrip(SubSeq(s, 2, Len(s)))
             ELSE s

RECURSIVE RStrip(_)
RStrip(s) == IF Len(s) > 0 /\ SubSeq(s, Len(s), Len(s)) = " "
             THEN RStrip(SubSeq(s, 1, Len(s) - 1))
             ELSE s

\* s.strip()
Strip(s) == RStrip(LStrip(s))

\* s.split(label, 1)[1], for a label that occurs in s
AfterLabel(s, label) == SubSeq(s, Find(s, label) + Len(label), Len(s))

RECURSIVE Pow(_, _)
Pow(b, n) == IF n = 0 THEN 1 ELSE b * Pow(b, n - 1)

\* -------------------------------------------------- extract_submit_info

\* A page text is the sequence of its whitespace-separated tokens; a token
\* holds none of the characters < > " so a pattern that matches inside a
\* token matches up to the token's end.
Schemes == {"http://", "https://"}

\* r'(https?://[^\s<>"]+)' matches the token from its start
MatchesAnyUrl(t) ==
    \E sch \in Schemes : StartsWith(t, sch) /\ Len(t) > Len(sch)

\* r'https?://[^\s<>"]+' followed by `tail` matches the token from its start
MatchesUrlWith(t, tail) ==
    \E sch \in Schemes :
        /\ StartsWith(t, sch)
        /\ ContainsFrom(t, tail, Len(sch) + 2)

\* url_patterns, in the order of the list
UrlPatterns == <<"/submit", "/api/submit", "">>

MatchesPattern(t, k) ==
    IF UrlPatterns[k] = "" THEN MatchesAnyUrl(t)
    ELSE MatchesUrlWith(t, UrlPatterns[k])

\* re.findall(pattern, text): the matching tokens in document order
FindAll(k, text) == SelectSeq(text, LAMBDA t : MatchesPattern(t, k))

RECURSIVE FirstPatternMatch(_, _)
FirstPatternMatch(k, text) ==
    IF k > Len(UrlPatterns) THEN None
    ELSE IF FindAll(k, text) # <<>> THEN FindAll(k, text)[1]
    ELSE FirstPatternMatch(k + 1, text)

\* mutant: the patterns are tried from the most general one
extract_submit_info_AnyUrlFirst(text) ==
    FirstPatternMatch(Len(UrlPatterns), text)

extract_submit_info(text) == FirstPatternMatch(1, text)

\* -------------------------------------------------- _parse_llm_response

\* the for loop over sections: the answer after lines 1..n
RECURSIVE ScanAnswer(_, _)
ScanAnswer(sections, n) ==
    IF n = 0 THEN None
    ELSE IF StartsWith(Strip(sections[n]), "ANSWER:")
         THEN Strip(AfterLabel(sections[n], "ANSWER:"))
         ELSE ScanAnswer(sections, n - 1)

\* the for loop over sections: the submit_url after lines 1..n
RECURSIVE ScanSubmitUrl(_, _)
ScanSubmitUrl(sections, n) ==
    IF n = 0 THEN None
    ELSE IF /\ ~StartsWith(Strip(sections[n]), "ANSWER:")
            /\ StartsWith(Strip(sections[n]), "SUBMIT_URL:")
            /\ StartsWith(Strip(AfterLabel(sections[n], "SUBMIT_URL:")), "http")
         THEN Strip(AfterLabel(sections[n], "SUBMIT_URL:"))
         ELSE ScanSubmitUrl(sections, n - 1)

\* "for line in reversed(sections)": the last meaningful line among 1..n
RECURSIVE LastMeaningfulLine(_, _, _)
LastMeaningfulLine(sections, n, dflt) ==
    IF n = 0 THEN dflt
    ELSE IF Strip(sections[n]) # "" /\ ~StartsWith(sections[n], "SUBMIT_URL")
         THEN Strip(sections[n])
         ELSE LastMeaningfulLine(sections, n - 1, dflt)

ParsedAnswer(sections) ==
    LET answer == ScanAnswer(sections, Len(sections))
    IN  IF ~Truthy(answer) /\ sections # <<>>
        THEN LastMeaningfulLine(sections, Len(sections), answer)
        ELSE answer

ParsedSubmitUrl(sections, fallback_text) ==
    LET submit_url == ScanSubmitUrl(sections, Len(sections))
    IN  IF ~Truthy(submit_url) THEN extract_submit_info(fallback_text)
        ELSE submit_url

\* the pair (answer, submit_url) the method returns
parse_llm_response(sections, fallback_text) ==
    <<ParsedAnswer(sections), ParsedSubmitUrl(sections, fallback_text)>>

\* ------------------------------------------- submit_answer: coercion

DecimalDigits == {"0", "1", "2", "3", "4", "5", "6", "7", "8", "9"}

\* s.isdigit(), for ASCII text
IsDigit(s) ==
    Len(s) > 0 /\ \A i \in 1..Len(s) : SubSeq(s, i, i) \in DecimalDigits

\* s.lstrip('-'): every leading '-' goes
RECURSIVE LStripMinus(_)
LStripMinus(s) == IF Len(s) > 0 /\ SubSeq(s, 1, 1) = "-"
                  THEN LStripMinus(SubSeq(s, 2, Len(s)))
                  ELSE s

\* s without one leading sign, as int() and float() read it
Unsigned(s) == IF Len(s) > 0 /\ SubSeq(s, 1, 1) \in {"+", "-"}
               THEN SubSeq(s, 2, Len(s))
               ELSE s

\* int(s) does not raise ValueError: an optional sign and decimal digits
IntAccepts(s) == IsDigit(Unsigned(s))

\* the position of the exponent marker of a float literal, 0 without one
ExponentAt(s) ==
    IF \E i \in 1..Len(s) : SubSeq(s, i, i) \in {"e", "E"}
    THEN CHOOSE i \in 1..Len(s) :
            /\ SubSeq(s, i, i) \in {"e", "E"}
            /\ \A j \in 1..(i - 1) : SubSeq(s, j, j) \notin {"e", "E"}
    ELSE 0

\* digits [ "." [digits] ]  or  "." digits
MantissaAccepts(m) ==
    LET dot == Find(m, ".")
        int == SubSeq(m, 1, dot - 1)
        frac == SubSeq(m, dot + 1, Len(m))
    IN  IF dot = 0 THEN IsDigit(m)
        ELSE /\ int = "" \/ IsDigit(int)
             /\ frac = "" \/ IsDigit(frac)
             /\ int # "" \/ frac # ""

\* float(s) does not raise ValueError, for a text that holds a '.': an
\* optional sign, a decimal mantissa, an optional exponent with its own sign
FloatAccepts(s) ==
    LET u == Unsigned(s)
        e == ExponentAt(u)
    IN  IF e = 0 THEN MantissaAccepts(u)
        ELSE /\ MantissaAccepts(SubSeq(u, 1, e - 1))
             /\ IntAccepts(SubSeq(u, e + 1, Len(u)))

\* parsed_answer: its python type and the text it was read from
Coerced(type, text) == [type |-> type, text |-> text]

\* "parsed_answer = answer; if answer and isinstance(answer, str): try: ...
\* except (ValueError, AttributeError): pass"
Coerce(answer) ==
    IF answer = None THEN Coerced("NoneType", answer)
    ELSE IF ~Truthy(answer) THEN Coerced("str", answer)
    ELSE IF ContainsFrom(answer, ".", 1)
         THEN IF FloatAccepts(answer) THEN Coerced("float", answer)
              ELSE Coerced("str", answer)
    ELSE IF IsDigit(LStripMinus(answer))
         THEN IF IntAccepts(answer) THEN Coerced("int", answer)
              ELSE Coerced("str", answer)
    ELSE Coerced("str", answer)

\* ------------------------------------------------------- environment

\* the url the caller passes (app.py: data.get("url"))
QuizUrl == "http://q/1"

\* what a GET or a rendered fetch of a task page can return
Pages == { <<"no", "link">>,
           <<"see", "http://q/data", "post", "http://q/submit">>,
           <<"see", "http://q/data">> }

\* what the chat completion can return, split into lines
LLMReplies == { <<"ANSWER: 42", "SUBMIT_URL: https://s/submit">>,
                <<"ANSWER: 42">>,
                <<"ANSWER:", "SUBMIT_URL: none">>,
                <<"">> }

\* the dicts response.json() can decode
Results == { [correct |-> TRUE],
             [correct |-> FALSE],
             [correct |-> TRUE, url |-> ""],
             [correct |-> TRUE, url |-> "http://q/2"],
             [correct |-> FALSE, url |-> "http://q/2"],
             [correct |-> FALSE, url |-> "http://q/3"],
             [url |-> "http://q/3"] }

\* subclasses of requests.RequestException
RequestExceptions ==
    {"ConnectionError", "HTTPError", "Timeout", "requests.JSONDecodeError"}

\* requests.get / raise_for_status fail with one of these
GetErrors == {"ConnectionError", "HTTPError"}

\* driver.get / WebDriverWait(...).until fail with one of these
RenderErrors == {"WebDriverException"}

\* requests.post fails with one of these
PostErrors == {"Timeout"}

\* response.json() on a body that is not JSON raises a subclass of
\* RequestException or a plain ValueError, by the installed requests version
JsonErrors == {"requests.JSONDecodeError", "json.JSONDecodeError"}

\* result.get(...) on a decoded body that is not a dict
NotADictError == "AttributeError"

\* the sequences over S of length at most n
SeqsUpTo(S, n) == UNION { [1..k -> S] : k \in 0..n }

\* the longest reasoning output and the longest page text of a direct call
MaxLines == 3
MaxTokens == 3

\* lines a chat completion can hold
OutputLines == { "ANSWER: 1", "ANSWER: 2", "ANSWER:", "  SUBMIT_URL: none",
                 "SUBMIT_URL: http://s/submit", "so 7", "" }

\* whitespace-separated tokens a page text can hold
PageTokens == { "see", "http://q/data", "http://q/submit",
                "https://q/api/submit" }

\* answers submit_answer can be called with
AnswerTexts == { "42", "-42", "-3.5", "forty-two", "--42", "1.2.3", "1.5e3",
                 "+1.5", "7.", ".5", ".", "-", "", "1e3", "4 2" }

\* how long one blocking call takes
Durations == {0, LongCall}

\* the status codes of the responses to the POST
HttpStatuses == {200, 500}

\* -------------------------------------------------------------- state

VARIABLES
    pc,             \* where solve_quiz is
    json_error,     \* the class response.json() raises in this build
    now,            \* time.time()
    max_retries,    \* the argument of solve_quiz
    start_time,     \* solve_quiz's local
    attempt,        \* solve_quiz's local
    current_url,    \* solve_quiz's local
    driver,         \* self.driver
    question_text,  \* solve_quiz's local
    answer,         \* solve_quiz's local
    submit_url,     \* solve_quiz's local
    result,         \* solve_quiz's local
    outcome,        \* how solve_quiz ended: a returned dict or a raised exception
    caught,         \* history: req_err / task_err of the latest iteration
    fetched,        \* history: the urls fetch_quiz_content was called with
    sleeps,         \* history: the arguments of time.sleep
    llm_calls,      \* history: the number of chat completions requested
    submitted,      \* history: the "url" fields of the payloads posted
    received,       \* history: the number of dicts submit_answer returned
    io,             \* history: what the latest blocking call of the iteration met
    created,        \* history: the number of webdriver.Chrome instances created
    quits,          \* history: the number of driver.quit() calls
    call            \* a method called on its own: its arguments and its result

vars == <<pc, json_error, now, max_retries, start_time, attempt, current_url,
          driver, question_text, answer, submit_url, result, outcome, caught,
          fetched, sleeps, llm_calls, submitted, received, io,
          created, quits, call>>

locals == <<question_text, answer, submit_url, result>>
history == <<fetched, sleeps, llm_calls, submitted, received>>

\* no method has been called on its own
NoCall == [fn |-> "none"]

\* no blocking call has been made
NoIo == [op |-> "none"]

NoOutcome == [kind |-> "none"]
Returned(d) == [kind |-> "return", value |-> d]
Raised(e) == [kind |-> "raise", exc |-> e]
ErrorResult(msg) == [error |-> msg]

\* QuizSolver.__init__, before solve_quiz is called
Init ==
    /\ pc = "start"
    /\ json_error \in JsonErrors
    /\ now = 0
    /\ max_retries = 0
    /\ start_time = 0
    /\ attempt = 0
    /\ current_url = None
    /\ driver = None
    /\ question_text = <<>>
    /\ answer = None
    /\ submit_url = None
    /\ result = <<>>
    /\ outcome = NoOutcome
    /\ caught = None
    /\ fetched = <<>>
    /\ sleeps = <<>>
    /\ llm_calls = 0
    /\ submitted = <<>>
    /\ received = 0
    /\ io = NoIo
    /\ created = 0
    /\ quits = 0
    /\ call = NoCall

\* ------------------------------------------------------------ actions

\* solve_quiz is entered: "start_time = time.time(); attempt = 0;
\* current_url = quiz_url"
Start ==
    /\ pc = "start"
    /\ \E n \in 1..MaxRetriesArg : max_retries' = n
    /\ start_time' = now
    /\ attempt' = 0
    /\ current_url' = QuizUrl
    /\ pc' = "loop"
    /\ UNCHANGED <<call, json_error, now, driver, locals, outcome, caught, history,
                   io, created, quits>>

\* mutant: the attempt test off by one
LoopCondition_OffByOne ==
    attempt <= max_retries /\ (now - start_time) < Budget

\* mutant: the loop is bounded by the deadline alone
LoopCondition_DeadlineOnly ==
    (now - start_time) < Budget

\* mutant: the deadline test lets the budget's last second through
LoopCondition_DeadlineInclusive ==
    attempt < max_retries /\ (now - start_time) <= Budget

\* the while condition
LoopCondition == attempt < max_retries /\ (now - start_time) < Budget

\* mutant: when the loop ends, the last result received is returned
LoopGuard_ReturnsLastResult ==
    /\ pc = "loop"
    /\ IF LoopCondition
       THEN /\ attempt' = attempt + 1
            /\ pc' = "fetch"
            /\ caught' = None
            /\ io' = NoIo
            /\ outcome' = outcome
       ELSE /\ outcome' = IF received > 0 THEN Returned(result)
                          ELSE Returned(ErrorResult("Max retries exceeded or timeout"))
            /\ pc' = "finally"
            /\ UNCHANGED <<attempt, caught, io>>
    /\ UNCHANGED <<call, json_error, now, max_retries, start_time, current_url,
                   driver, locals, history, created, quits>>

\* the top of the while loop: enter the body with "attempt += 1", or leave
\* the loop and "return {"error": "Max retries exceeded or timeout"}"
LoopGuard ==
    /\ pc = "loop"
    /\ IF LoopCondition
       THEN /\ attempt' = attempt + 1
            /\ pc' = "fetch"
            /\ caught' = None
            /\ io' = NoIo
            /\ outcome' = outcome
       ELSE /\ outcome' = Returned(ErrorResult("Max retries exceeded or timeout"))
            /\ pc' = "finally"
            /\ UNCHANGED <<attempt, caught, io>>
    /\ UNCHANGED <<call, json_error, now, max_retries, start_time, current_url,
                   driver, locals, history, created, quits>>

\* mutant: the handler retries without looking at the attempt count
HandleRequestError_AlwaysRetry(e, t) ==
    /\ sleeps' = Append(sleeps, Pow(BackoffBase, attempt))
    /\ now' = t + Pow(BackoffBase, attempt)
    /\ pc' = "loop"
    /\ outcome' = outcome

\* "except (requests.Timeout, requests.RequestException) as req_err", for an
\* exception caught at time t
HandleRequestError(e, t) ==
    IF attempt < max_retries
    THEN /\ sleeps' = Append(sleeps, Pow(BackoffBase, attempt))
         /\ now' = t + Pow(BackoffBase, attempt)
         /\ pc' = "loop"
         /\ outcome' = outcome
    ELSE /\ outcome' = Returned(ErrorResult("Network error: " \o e))
         /\ pc' = "finally"
         /\ now' = t
         /\ sleeps' = sleeps

\* mutant: no "except Exception" clause, the exception leaves solve_quiz
HandleOtherError_Propagates(e, t) ==
    /\ now' = t
    /\ sleeps' = sleeps
    /\ outcome' = Raised(e)
    /\ pc' = "finally"

\* "except Exception as task_err", for an exception caught at time t
HandleOtherError(e, t) ==
    /\ now' = t
    /\ sleeps' = sleeps
    /\ IF attempt >= max_retries
       THEN /\ outcome' = Returned(ErrorResult(e))
            /\ pc' = "finally"
       ELSE /\ pc' = "loop"
            /\ outcome' = outcome

\* the except clauses of the loop body, in their order
HandleException(e, t) ==
    /\ caught' = e
    /\ IF e \in RequestExceptions
       THEN HandleRequestError(e, t)
       ELSE HandleOtherError(e, t)

\* mutant: the driver is created before the GET is tried
FetchViaRequests_EagerDriver ==
    /\ pc = "fetch"
    /\ \E d \in Durations, page \in Pages :
        /\ now' = now + d
        /\ question_text' = page
    /\ io' = [op |-> "fetch", get |-> "ok", render |-> "unused"]
    /\ IF driver = None
       THEN driver' = "chrome" /\ created' = created + 1
       ELSE UNCHANGED <<driver, created>>
    /\ fetched' = Append(fetched, current_url)
    /\ pc' = "reason"
    /\ UNCHANGED <<call, json_error, max_retries, start_time, attempt, current_url,
                   answer, submit_url, result, outcome, caught,
                   sleeps, llm_calls, submitted, received, quits>>

\* fetch_quiz_content: requests.get succeeds
FetchViaRequests ==
    /\ pc = "fetch"
    /\ \E d \in Durations, page \in Pages :
        /\ now' = now + d
        /\ question_text' = page
    /\ io' = [op |-> "fetch", get |-> "ok", render |-> "unused"]
    /\ fetched' = Append(fetched, current_url)
    /\ pc' = "reason"
    /\ UNCHANGED <<call, json_error, max_retries, start_time, attempt, current_url,
                   driver, answer, submit_url, result, outcome, caught,
                   sleeps, llm_calls, submitted, received,
                   created, quits>>

\* mutant: _init_selenium is called on every fallback
FetchViaSelenium_FreshDriver ==
    /\ pc = "fetch"
    /\ \E d \in Durations, e \in GetErrors, page \in Pages :
        /\ now' = now + d
        /\ question_text' = page
        /\ io' = [op |-> "fetch", get |-> e, render |-> "ok"]
    /\ driver' = "chrome"
    /\ created' = created + 1
    /\ fetched' = Append(fetched, current_url)
    /\ pc' = "reason"
    /\ UNCHANGED <<call, json_error, max_retries, start_time, attempt, current_url,
                   answer, submit_url, result, outcome, caught,
                   sleeps, llm_calls, submitted, received, quits>>

\* fetch_quiz_content: requests.get fails, and the page is read through the
\* driver, created by _init_selenium if there is none yet
FetchViaSelenium ==
    /\ pc = "fetch"
    /\ \E d \in Durations, e \in GetErrors, page \in Pages :
        /\ now' = now + d
        /\ question_text' = page
        /\ io' = [op |-> "fetch", get |-> e, render |-> "ok"]
    /\ IF driver = None
       THEN driver' = "chrome" /\ created' = created + 1
       ELSE UNCHANGED <<driver, created>>
    /\ fetched' = Append(fetched, current_url)
    /\ pc' = "reason"
    /\ UNCHANGED <<call, json_error, max_retries, start_time, attempt, current_url,
                   answer, submit_url, result, outcome, caught,
                   sleeps, llm_calls, submitted, received, quits>>

\* fetch_quiz_content: requests.get fails and no driver can be created, so
\* the bare "raise" re-raises the requests exception
FetchRaisesRequestError ==
    /\ pc = "fetch"
    /\ driver = None
    /\ \E d \in Durations, e \in GetErrors :
        /\ HandleException(e, now + d)
        /\ io' = [op |-> "fetch", get |-> e, render |-> "init_failed"]
    /\ fetched' = Append(fetched, current_url)
    /\ UNCHANGED <<call, json_error, max_retries, start_time, attempt, current_url,
                   driver, locals, llm_calls, submitted, received, created,
                   quits>>

\* fetch_quiz_content: requests.get fails, there is a driver (created now if
\* there was none), and driver.get or the wait for the body raises
FetchRaisesRenderError ==
    /\ pc = "fetch"
    /\ \E d \in Durations, e \in GetErrors, se \in RenderErrors :
        /\ HandleException(se, now + d)
        /\ io' = [op |-> "fetch", get |-> e, render |-> se]
    /\ IF driver = None
       THEN driver' = "chrome" /\ created' = created + 1
       ELSE UNCHANGED <<driver, created>>
    /\ fetched' = Append(fetched, current_url)
    /\ UNCHANGED <<call, json_error, max_retries, start_time, attempt, current_url,
                   locals, llm_calls, submitted, received, quits>>

\* mutant: a missing url or answer is retried like a transient error
AfterReasoning_RetryOnMissing(pair) ==
    LET url == PyOr(pair[2], extract_submit_info(question_text))
    IN  /\ answer' = pair[1]
        /\ submit_url' = url
        /\ outcome' = outcome
        /\ pc' = IF Truthy(url) /\ Truthy(pair[1]) THEN "submit" ELSE "loop"

\* solve_quiz after analyze_and_solve_with_llm returned pair: the submit url
\* is resolved and the two "if not ..." checks are made
AfterReasoning(pair) ==
    LET url == PyOr(pair[2], extract_submit_info(question_text))
    IN  /\ answer' = pair[1]
        /\ submit_url' = url
        /\ IF ~Truthy(url)
           THEN /\ outcome' = Returned(ErrorResult("No submit URL found"))
                /\ pc' = "finally"
           ELSE IF ~Truthy(pair[1])
           THEN /\ outcome' = Returned(ErrorResult("Could not determine answer"))
                /\ pc' = "finally"
           ELSE /\ pc' = "submit"
                /\ outcome' = outcome

\* analyze_and_solve_with_llm: the completion arrives and is parsed
ReasonParsed ==
    /\ pc = "reason"
    /\ \E d \in Durations, reply \in LLMReplies :
        /\ now' = now + d
        /\ AfterReasoning(parse_llm_response(reply, question_text))
    /\ io' = [op |-> "llm", ok |-> TRUE]
    /\ llm_calls' = llm_calls + 1
    /\ UNCHANGED <<call, json_error, max_retries, start_time, attempt, current_url,
                   driver, question_text, result, caught, fetched, sleeps,
                   submitted, received, created, quits>>

\* analyze_and_solve_with_llm: the completion request raises (or its content
\* is None), and "except Exception" returns None, None
ReasonFailed ==
    /\ pc = "reason"
    /\ \E d \in Durations : now' = now + d
    /\ AfterReasoning(<<None, None>>)
    /\ io' = [op |-> "llm", ok |-> FALSE]
    /\ llm_calls' = llm_calls + 1
    /\ UNCHANGED <<call, json_error, max_retries, start_time, attempt, current_url,
                   driver, question_text, result, caught, fetched, sleeps,
                   submitted, received, created, quits>>

\* mutant: the next url is followed only after a correct answer
Decide_ChainOnlyIfCorrect(r) ==
    /\ result' = r
    /\ IF Truthy(Get(r, "url")) /\ "correct" \in DOMAIN r /\ r["correct"]
       THEN /\ current_url' = r["url"]
            /\ pc' = "loop"
            /\ outcome' = outcome
       ELSE /\ outcome' = Returned(r)
            /\ pc' = "finally"
            /\ current_url' = current_url

\* mutant: an incorrect final answer is tried again instead of returned
Decide_RetryIfIncorrect(r) ==
    /\ result' = r
    /\ current_url' = IF Truthy(Get(r, "url")) THEN r["url"] ELSE current_url
    /\ IF Truthy(Get(r, "url")) \/ ~("correct" \in DOMAIN r /\ r["correct"])
       THEN /\ pc' = "loop"
            /\ outcome' = outcome
       ELSE /\ outcome' = Returned(r)
            /\ pc' = "finally"

\* solve_quiz after submit_answer returned the dict r: chain or return
Decide(r) ==
    /\ result' = r
    /\ IF Truthy(Get(r, "url"))
       THEN /\ current_url' = r["url"]
            /\ pc' = "loop"
            /\ outcome' = outcome
       ELSE /\ outcome' = Returned(r)
            /\ pc' = "finally"
            /\ current_url' = current_url

\* mutant: the backoff is also slept before a chained task is fetched
SubmitDecoded_PauseBeforeChain ==
    /\ pc = "submit"
    /\ \E d \in Durations, status \in HttpStatuses, r \in Results :
        /\ io' = [op |-> "submit", sent |-> Coerce(answer),
                  status |-> status, body |-> "dict"]
        /\ received' = received + 1
        /\ Decide(r)
        /\ IF Truthy(Get(r, "url"))
           THEN /\ sleeps' = Append(sleeps, Pow(BackoffBase, attempt))
                /\ now' = now + d + Pow(BackoffBase, attempt)
           ELSE /\ sleeps' = sleeps
                /\ now' = now + d
    /\ submitted' = Append(submitted, current_url)
    /\ UNCHANGED <<call, json_error, max_retries, start_time, attempt, driver,
                   question_text, answer, submit_url, caught, fetched,
                   llm_calls, created, quits>>

\* mutant: response.raise_for_status() before the body is decoded
SubmitDecoded_RaiseForStatus ==
    /\ pc = "submit"
    /\ \E d \in Durations, status \in HttpStatuses, r \in Results :
        /\ io' = [op |-> "submit", sent |-> Coerce(answer),
                  status |-> status, body |-> "dict"]
        /\ IF status = 200
           THEN /\ now' = now + d
                /\ received' = received + 1
                /\ Decide(r)
                /\ UNCHANGED <<caught, sleeps>>
           ELSE /\ HandleException("HTTPError", now + d)
                /\ UNCHANGED <<received, result, current_url>>
    /\ submitted' = Append(submitted, current_url)
    /\ UNCHANGED <<call, json_error, max_retries, start_time, attempt, driver,
                   question_text, answer, submit_url, fetched,
                   llm_calls, created, quits>>

\* submit_answer returns a decoded dict, whatever the status code
SubmitDecoded ==
    /\ pc = "submit"
    /\ \E d \in Durations, status \in HttpStatuses, r \in Results :
        /\ now' = now + d
        /\ io' = [op |-> "submit", sent |-> Coerce(answer),
                  status |-> status, body |-> "dict"]
        /\ received' = received + 1
        /\ Decide(r)
    /\ submitted' = Append(submitted, current_url)
    /\ UNCHANGED <<call, json_error, max_retries, start_time, attempt, driver,
                   question_text, answer, submit_url, caught, fetched, sleeps,
                   llm_calls, created, quits>>

\* what submit_answer raises on a response body that is no decoded dict
BodyError(body) == IF body = "not_json" THEN json_error ELSE NotADictError

\* submit_answer raises because requests.post fails
SubmitRaisesPostError ==
    /\ pc = "submit"
    /\ \E d \in Durations, e \in PostErrors : HandleException(e, now + d)
    /\ io' = [op |-> "submit", sent |-> Coerce(answer),
              status |-> 0, body |-> "none"]
    /\ submitted' = Append(submitted, current_url)
    /\ UNCHANGED <<call, json_error, max_retries, start_time, attempt, current_url,
                   driver, locals, fetched, llm_calls, received,
                   created, quits>>

\* submit_answer raises on the response: the body is not JSON
\* (response.json() raises), or it decodes to something that is not a dict
\* (result.get raises)
SubmitRaisesBodyError ==
    /\ pc = "submit"
    /\ \E d \in Durations, status \in HttpStatuses,
          body \in {"not_json", "not_dict"} :
        /\ HandleException(BodyError(body), now + d)
        /\ io' = [op |-> "submit", sent |-> Coerce(answer),
                  status |-> status, body |-> body]
    /\ submitted' = Append(submitted, current_url)
    /\ UNCHANGED <<call, json_error, max_retries, start_time, attempt, current_url,
                   driver, locals, fetched, llm_calls, received,
                   created, quits>>

\* a BaseException (KeyboardInterrupt, SystemExit) interrupts a blocking
\* call of the loop body: no except clause catches it
Fault ==
    /\ pc \in {"fetch", "reason", "submit"}
    /\ outcome' = Raised("KeyboardInterrupt")
    /\ pc' = "finally"
    /\ UNCHANGED <<call, json_error, now, max_retries, start_time, attempt,
                   current_url, driver, locals, caught, history, io, created,
                   quits>>

\* mutant: the driver is closed before the returns only, not in a finally
Finally_QuitOnlyOnReturn ==
    /\ pc = "finally"
    /\ quits' = IF Truthy(driver) /\ outcome.kind = "return"
                THEN quits + 1 ELSE quits
    /\ pc' = "done"
    /\ UNCHANGED <<call, json_error, now, max_retries, start_time, attempt,
                   current_url, driver, locals, outcome, caught, history, io,
                   created>>

\* the finally clause: "if self.driver: self.driver.quit()", an exception of
\* quit() being logged only
Finally ==
    /\ pc = "finally"
    /\ quits' = IF Truthy(driver) THEN quits + 1 ELSE quits
    /\ pc' = "done"
    /\ UNCHANGED <<call, json_error, now, max_retries, start_time, attempt,
                   current_url, driver, locals, outcome, caught, history, io,
                   created>>

Next ==
    \/ Start
    \/ LoopGuard
    \/ FetchViaRequests
    \/ FetchViaSelenium
    \/ FetchRaisesRequestError
    \/ FetchRaisesRenderError
    \/ ReasonParsed
    \/ ReasonFailed
    \/ SubmitDecoded
    \/ SubmitRaisesPostError
    \/ SubmitRaisesBodyError
    \/ Fault
    \/ Finally

Spec == Init /\ [][Next]_vars

\* ------------------------------------------- the methods called directly

\* everything solve_quiz reads or writes
solver == <<pc, json_error, now, max_retries, start_time, attempt, current_url,
            driver, question_text, answer, submit_url, result, outcome, caught,
            fetched, sleeps, llm_calls, submitted, received, io, created,
            quits>>

\* one call of _parse_llm_response(response, fallback_text)
CallParse ==
    /\ call = NoCall
    /\ \E sections \in SeqsUpTo(OutputLines, MaxLines),
          text \in Pages \cup {<<>>} :
        call' = [fn |-> "_parse_llm_response",
                 sections |-> sections,
                 fallback_text |-> text,
                 ret |-> parse_llm_response(sections, text)]
    /\ UNCHANGED solver

\* one call of extract_submit_info(text)
CallExtract ==
    /\ call = NoCall
    /\ \E text \in SeqsUpTo(PageTokens, MaxTokens) :
        call' = [fn |-> "extract_submit_info",
                 text |-> text,
                 ret |-> extract_submit_info(text)]
    /\ UNCHANGED solver

\* the coercion at the top of one call of submit_answer
CallCoerce ==
    /\ call = NoCall
    /\ \E text \in AnswerTexts :
        call' = [fn |-> "submit_answer",
                 answer |-> text,
                 parsed_answer |-> Coerce(text)]
    /\ UNCHANGED solver

PureNext ==
    \/ CallParse
    \/ CallExtract
    \/ CallCoerce

\* the parser, the url extraction and the coercion read no state of the
\* solver: a behaviour is one call of one of them, with any input
PureSpec == Init /\ [][PureNext]_vars

\* solve_quiz is sequential code: as long as a step is possible the
\* interpreter takes one, every blocking call (get, render, completion, post,
\* sleep) being assumed to return
FairSpec == Spec /\ WF_vars(Next)

\* ------------------------------------------------------------- claims

Elapsed == now - start_time
MaxAttemptsOrTimeout == ErrorResult("Max retries exceeded or timeout")

\* the step in which submit_answer returns a dict to solve_quiz
SubmissionReturns ==
    /\ pc = "submit"
    /\ submitted' # submitted
    /\ caught' = None
    /\ outcome'.kind # "raise"

\* the step in which fetch_quiz_content / submit_answer raises into the loop
\* body's except clauses
FetchFails == pc = "fetch" /\ fetched' # fetched /\ caught' # None
SubmitFails == pc = "submit" /\ submitted' # submitted /\ caught' # None

\* the step in which analyze_and_solve_with_llm returns and the checks run
ReasoningReturns == pc = "reason" /\ llm_calls' # llm_calls

\* once solve_quiz has its outcome, nothing is fetched, asked, posted or
\* slept any more, and the outcome stays
TerminalQuiet ==
    [][(pc = "finally" \/ pc = "done")
         => (history' = history /\ outcome' = outcome)]_vars

\* C1: when solve_quiz has ended, driver.quit() was called exactly once if a
\* driver was created in the session and never if none was, however the call
\* ended; before the end it was not called at all.
C1_ReleasedExactlyOnce ==
    /\ created <= 1
    /\ pc # "done" => quits = 0
    /\ pc = "done" => quits = created

C1_Witness ==
    /\ pc = "done"
    /\ outcome.kind = "raise"
    /\ created = 1
    /\ quits = 1

\* C2: attempt never exceeds max_retries, it changes only at the top of the
\* loop body and then by exactly 1, and no more fetches are made than
\* attempts, hence at most max_retries.
C2_AttemptBounded ==
    /\ [](attempt <= max_retries /\ Len(fetched) <= attempt)
    /\ [][pc = "loop" /\ pc' = "fetch" => attempt' = attempt + 1]_vars
    /\ [][(pc # "start" /\ pc # "loop") => attempt' = attempt]_vars
    /\ [][fetched' # fetched => Len(fetched') = attempt]_vars

C2_Witness ==
    /\ pc = "done"
    /\ attempt = max_retries
    /\ max_retries = 3
    /\ Len(fetched) = 3
    /\ Len(sleeps) = 1
    /\ result # <<>>

\* C3: a returned result with a next url makes that url current_url, whether
\* or not it is marked correct; current_url changes at no other step (an
\* error retry keeps it); and every fetch is of current_url, which is the
\* initial url until a result arrived and the latest result's url after.
C3_ChainFollowsNextUrl ==
    /\ [][SubmissionReturns /\ Truthy(Get(result', "url"))
            => current_url' = result'["url"] /\ pc' = "loop"]_vars
    /\ [][current_url' # current_url
            => pc = "start"
               \/ (SubmissionReturns /\ Truthy(Get(result', "url")))]_vars
    /\ [][fetched' # fetched => fetched' = Append(fetched, current_url)]_vars
    /\ [](pc \in {"loop", "fetch", "reason", "submit"}
            => current_url = IF result = <<>> THEN QuizUrl ELSE result["url"])

C3_Witness ==
    /\ pc = "reason"
    /\ result = [correct |-> FALSE, url |-> "http://q/3"]
    /\ fetched = <<QuizUrl, QuizUrl, "http://q/3">>
    /\ caught = None

\* C4: a returned result without a next url ends the session in that step:
\* solve_quiz returns exactly that dict, whatever its correct field, and
\* nothing is fetched, asked, posted or slept afterwards.
C4_TerminalResultVerbatim ==
    /\ [][SubmissionReturns /\ ~Truthy(Get(result', "url"))
            => /\ pc' = "finally"
               /\ outcome' = Returned(result')
               /\ fetched' = fetched
               /\ sleeps' = sleeps
               /\ llm_calls' = llm_calls]_vars
    /\ TerminalQuiet

C4_Witness ==
    /\ pc = "done"
    /\ result = [correct |-> FALSE]
    /\ outcome = Returned(result)
    /\ attempt < max_retries

\* C5: when the reasoning step leaves no answer or no submit url, solve_quiz
\* returns an error dict in that step, with nothing posted, no sleep and no
\* further fetch, also when attempts and time remain.
C5_StructuralErrorTerminal ==
    /\ [][ReasoningReturns /\ (~Truthy(answer') \/ ~Truthy(submit_url'))
            => /\ pc' = "finally"
               /\ outcome'.kind = "return"
               /\ "error" \in DOMAIN outcome'.value
               /\ fetched' = fetched
               /\ sleeps' = sleeps
               /\ submitted' = submitted]_vars
    /\ TerminalQuiet

C5_Witness ==
    /\ pc = "done"
    /\ outcome = Returned(ErrorResult("Could not determine answer"))
    /\ Truthy(submit_url)
    /\ attempt < max_retries
    /\ Elapsed < Budget
    /\ submitted = <<>>
    /\ sleeps = <<>>

\* C6 (as claimed): whenever a fetch fails, for any cause, and attempts and
\* time remain, solve_quiz sleeps 2^attempt seconds and retries current_url.
C6_FetchFailureBacksOff ==
    [][FetchFails /\ attempt < max_retries /\ (now' - start_time) < Budget
         => /\ sleeps' = Append(sleeps, Pow(BackoffBase, attempt))
            /\ pc' = "loop"
            /\ current_url' = current_url]_vars

\* C7 (as claimed): whenever a submission fails, by the network or by the
\* decoding of the body, and attempts and time remain, solve_quiz sleeps
\* 2^attempt seconds and restarts from the fetch of current_url.
C7_SubmitFailureBacksOff ==
    [][SubmitFails /\ attempt < max_retries /\ (now' - start_time) < Budget
         => /\ sleeps' = Append(sleeps, Pow(BackoffBase, attempt))
            /\ pc' = "loop"
            /\ current_url' = current_url]_vars

\* the returned dict reports exception e
Reports(e) ==
    /\ outcome.kind = "return"
    /\ outcome.value \in {ErrorResult(e), ErrorResult("Network error: " \o e)}

\* C8 (as claimed): when the session ends after a fetch or submit failure
\* that was not retried, the returned error reports that failure, at the
\* attempt ceiling and at the deadline alike.
C8_CeilingReportsTransientError ==
    pc = "done" /\ caught # None => Reports(caught)

\* C8 (amended): a fetch or submit failure on attempt number max_retries is
\* returned as the error; one on an earlier attempt is followed by no retry
\* only when the deadline has passed at the loop test, and then the generic
\* "Max retries exceeded or timeout" error is returned instead.
C8_CeilingOutcome ==
    pc = "done" /\ caught # None
        => IF attempt = max_retries
           THEN Reports(caught)
           ELSE /\ Elapsed >= Budget
                /\ outcome = Returned(MaxAttemptsOrTimeout)

C8_Witness ==
    /\ pc = "done"
    /\ caught \in GetErrors
    /\ attempt < max_retries
    /\ outcome = Returned(MaxAttemptsOrTimeout)

\* C9: start_time is set once, on entry, and never again; a loop test made
\* when time.time() - start_time has reached 170 returns the "Max retries
\* exceeded or timeout" error, and nothing is fetched, asked or posted then
\* or later.
C9_DeadlineFromStart ==
    /\ [][pc # "start" => start_time' = start_time]_vars
    /\ [][pc = "loop" /\ Elapsed >= Budget
            => /\ pc' = "finally"
               /\ outcome' = Returned(MaxAttemptsOrTimeout)
               /\ history' = history]_vars
    /\ TerminalQuiet

C9_Witness ==
    /\ pc = "done"
    /\ Elapsed = Budget
    /\ attempt < max_retries
    /\ caught = None
    /\ outcome = Returned(MaxAttemptsOrTimeout)

\* the exceptions a fetch, reasoning, parsing, coercion, submission or
\* result-inspection step can raise
StepFailures ==
    GetErrors \cup RenderErrors \cup PostErrors \cup JsonErrors \cup {NotADictError}

ErrorMessages ==
    {"No submit URL found", "Could not determine answer",
     "Max retries exceeded or timeout"}
      \cup StepFailures \cup {"Network error: " \o e : e \in StepFailures}

WellFormed(d) == d \in Results \/ d \in {ErrorResult(m) : m \in ErrorMessages}

\* C10: solve_quiz has an outcome exactly when it has left the loop, the
\* outcome never changes once set, a returned outcome is a decoded result
\* dict or an {"error": message} dict, and no exception of a step of the
\* loop body leaves solve_quiz.
C10_OneWellFormedOutcome ==
    /\ [](/\ (pc \in {"finally", "done"}) <=> (outcome # NoOutcome)
          /\ outcome.kind = "return" => WellFormed(outcome.value)
          /\ outcome.kind = "raise" => outcome.exc \notin StepFailures)
    /\ [][outcome # NoOutcome => outcome' = outcome]_vars

C10_Witness ==
    /\ pc = "done"
    /\ caught = NotADictError
    /\ outcome = Returned(ErrorResult(NotADictError))

\* C11: time.sleep is called only in a step in which a fetch or a submission
\* fails; and when every iteration so far has ended with a returned result
\* (nothing failed), there was no sleep and exactly one fetch, one completion
\* and one post per iteration, the posts being for the urls fetched, the first
\* of them the initial url and each later one the url of the result before
\* it; when the latest of these results has no next url, it is what
\* solve_quiz returns.
C11_CleanChain ==
    /\ [][sleeps' # sleeps => (FetchFails \/ SubmitFails)]_vars
    /\ [][(fetched' # fetched /\ received > 0)
            => fetched'[Len(fetched')] = result["url"]]_vars
    /\ []((pc \in {"loop", "finally", "done"} /\ attempt >= 1 /\ received = attempt)
            => /\ sleeps = <<>>
               /\ Len(fetched) = attempt
               /\ llm_calls = attempt
               /\ submitted = fetched
               /\ fetched[1] = QuizUrl
               /\ (pc # "loop" /\ ~Truthy(Get(result, "url"))
                     => outcome = Returned(result)))

C11_Witness ==
    /\ pc = "done"
    /\ attempt = 2
    /\ received = 2
    /\ fetched = <<QuizUrl, "http://q/2">>
    /\ sleeps = <<>>
    /\ outcome = Returned([correct |-> TRUE])

\* C12: solve_quiz terminates (every blocking call returning), and it does so
\* within max_retries iterations of the loop: the loop body is never entered
\* more than max_retries times, so no more than max_retries fetches,
\* completions and posts are ever made and no more than max_retries sleeps
\* are slept.
C12_Terminates ==
    /\ <>(pc = "done")
    /\ [](/\ attempt <= max_retries
          /\ Len(fetched) <= attempt
          /\ llm_calls <= attempt
          /\ Len(submitted) <= attempt
          /\ Len(sleeps) <= attempt)

C12_Witness ==
    /\ pc = "done"
    /\ attempt = max_retries
    /\ max_retries = 3
    /\ Len(fetched) = max_retries
    /\ Len(sleeps) = max_retries - 1
    /\ outcome = Returned(ErrorResult("Network error: ConnectionError"))

\* ------------------------------------------------ the methods' contracts

ParseCalled == call.fn = "_parse_llm_response"
ExtractCalled == call.fn = "extract_submit_info"
CoerceCalled == call.fn = "submit_answer"

\* a line labelled ANSWER:
IsAnswerLine(line) == StartsWith(Strip(line), "ANSWER:")

\* a line labelled SUBMIT_URL:
IsSubmitUrlLine(line) == StartsWith(Strip(line), "SUBMIT_URL:")

HasAnswerLine(sections) ==
    \E i \in 1..Len(sections) : IsAnswerLine(sections[i])

\* the trimmed value of the first line labelled ANSWER:
FirstAnswerValue(sections) ==
    LET i == CHOOSE k \in 1..Len(sections) :
                /\ IsAnswerLine(sections[k])
                /\ \A j \in 1..(k - 1) : ~IsAnswerLine(sections[j])
    IN  Strip(AfterLabel(sections[i], "ANSWER:"))

\* C13 (as claimed): whenever the reasoning output holds a line labelled
\* ANSWER:, the answer the parser returns is the trimmed value of the first
\* such line.
C13_AnswerIsFirstLabelled ==
    (ParseCalled /\ HasAnswerLine(call.sections))
        => call.ret[1] = FirstAnswerValue(call.sections)

\* the last non-empty line that is not labelled SUBMIT_URL:, None without one
LastPlainLine(sections) ==
    LET plain == SelectSeq(sections,
                     LAMBDA l : Strip(l) # "" /\ ~IsSubmitUrlLine(l))
    IN  IF plain = <<>> THEN None ELSE Strip(plain[Len(plain)])

\* C14 (as claimed): with a line labelled ANSWER: the parser returns that
\* line's value, empty or not, and never a line of the fallback; without one
\* it returns the last non-empty line that is not labelled SUBMIT_URL:; in no
\* case is the answer a SUBMIT_URL: line or the bare label ANSWER:.
C14_FallbackOnlyWithoutLabel ==
    ParseCalled
        => /\ HasAnswerLine(call.sections)
                => call.ret[1] = ScanAnswer(call.sections, Len(call.sections))
           /\ ~HasAnswerLine(call.sections)
                => call.ret[1] = LastPlainLine(call.sections)
           /\ ~StartsWith(call.ret[1], "SUBMIT_URL:")
           /\ call.ret[1] # "ANSWER:"

\* a SUBMIT_URL: line whose value begins with http
AcceptsSubmitUrl(sections) ==
    \E i \in 1..Len(sections) :
        /\ IsSubmitUrlLine(sections[i])
        /\ StartsWith(Strip(AfterLabel(sections[i], "SUBMIT_URL:")), "http")

\* the first url of the text that holds `tail`, None without one
FirstUrlWith(text, tail) ==
    LET urls == SelectSeq(text, LAMBDA t : MatchesAnyUrl(t)
                                           /\ ContainsFrom(t, tail, 1))
    IN  IF urls = <<>> THEN None ELSE urls[1]

\* the url of a page text by priority: a /submit url, then an /api/submit
\* url, then any url, each time the first one in document order
UrlByPriority(text) ==
    PyOr(FirstUrlWith(text, "/submit"),
         PyOr(FirstUrlWith(text, "/api/submit"), FirstUrlWith(text, "")))

\* C15: extract_submit_info returns the first /submit url of the text, else
\* its first /api/submit url, else its first url, else None; and when the
\* reasoning output has no SUBMIT_URL: line with a value beginning with http,
\* the submit url the parser returns is that url of the page text.
C15_UrlFallbackByPriority ==
    /\ ExtractCalled => call.ret = UrlByPriority(call.text)
    /\ (ParseCalled /\ ~AcceptsSubmitUrl(call.sections))
            => call.ret[2] = UrlByPriority(call.fallback_text)

C15_Witness ==
    /\ ParseCalled
    /\ call.sections = <<"ANSWER: 1", "  SUBMIT_URL: none">>
    /\ call.fallback_text = <<"see", "http://q/data", "post", "http://q/submit">>
    /\ call.ret[2] = "http://q/submit"

\* s without one leading '-'
StripOneMinus(s) == IF Len(s) > 0 /\ SubSeq(s, 1, 1) = "-"
                    THEN SubSeq(s, 2, Len(s))
                    ELSE s

\* s without its first '.'
WithoutPoint(s) ==
    LET dot == Find(s, ".")
    IN  IF dot = 0 THEN s
        ELSE SubSeq(s, 1, dot - 1) \o SubSeq(s, dot + 1, Len(s))

\* the class of an answer text by the syntactic rules
SyntacticType(text) ==
    LET t == Strip(text)
    IN  IF ContainsFrom(t, ".", 1) /\ IsDigit(WithoutPoint(StripOneMinus(t)))
        THEN "float"
        ELSE IF IsDigit(StripOneMinus(t)) THEN "int"
        ELSE "str"

\* C16 (as claimed): the coercion gives every answer text the type its
\* syntax fixes: float when it holds a '.' and is all digits without one
\* leading '-' and the point, else int when it is all digits without one
\* leading '-', else str with the text unchanged.
C16_CoercionBySyntax ==
    CoerceCalled
        => /\ call.parsed_answer.type = SyntacticType(call.answer)
           /\ call.parsed_answer.text = call.answer

\* --------------------------------------------------------- the fetches

\* a step in which fetch_quiz_content is called and returns or raises
FetchStep == pc = "fetch" /\ fetched' # fetched

\* C17: in every call of fetch_quiz_content, a GET that succeeds gives the
\* page with the driver neither created nor used; the driver is used only
\* after the GET failed; the call raises exactly when the GET failed and the
\* driver could not be created or failed too, and the exception it raises
\* (the GET's when there is no driver, the driver's otherwise) is the one
\* solve_quiz's handlers receive.
C17_FallbackOnlyAfterGetFails ==
    [][FetchStep
        => /\ io'.get = "ok"
                => /\ io'.render = "unused"
                   /\ driver' = driver
                   /\ created' = created
                   /\ pc' = "reason"
           /\ io'.render # "unused" => io'.get \in GetErrors
           /\ pc' # "reason"
                <=> /\ io'.get \in GetErrors
                    /\ io'.render \in RenderErrors \cup {"init_failed"}
           /\ pc' = "reason" => question_text' \in Pages /\ caught' = None
           /\ pc' # "reason"
                => caught' = IF io'.render = "init_failed" THEN io'.get
                             ELSE io'.render]_vars

C17_Witness ==
    /\ io = [op |-> "fetch", get |-> "HTTPError", render |-> "init_failed"]
    /\ caught = "HTTPError"
    /\ driver = None
    /\ created = 0
    /\ attempt = 1
    /\ pc = "loop"

\* a call of fetch_quiz_content whose GET fails
FallbackStep == FetchStep /\ io'.get \in GetErrors

\* The fetches made so far that raised: a fetch that returns is followed by
\* the completion before the next fetch, so these are the fetches in surplus
\* of the completions. While there is no driver, each of them is a fetch
\* whose GET failed and whose driver could not be created.
FailedFetches == Len(fetched) - llm_calls

\* C18 (as claimed): a driver is created only in the first fetch of the
\* session whose GET fails.
C18_CreatedOnFirstFallback ==
    [][created' # created => (FallbackStep /\ FailedFetches = 0)]_vars

\* C18 (amended): at most one driver is created; one is created exactly in a
\* fetch whose GET fails while there is none and in which webdriver.Chrome
\* succeeds, which it is asked to in every such fetch; a driver that exists
\* is used as it is by every later fetch whose GET fails, and it is neither
\* replaced nor quit before the finally clause.
C18_OneDriverLazily ==
    /\ [](created <= 1 /\ (driver = None <=> created = 0))
    /\ [][created' # created
            => FallbackStep /\ driver = None /\ Truthy(driver')]_vars
    /\ [][(FallbackStep /\ driver = None)
            => created' = created + 1 \/ io'.render = "init_failed"]_vars
    /\ [][(FallbackStep /\ driver # None)
            => created' = created /\ io'.render # "init_failed"]_vars
    /\ [][driver # None => driver' = driver]_vars
    /\ [](quits > 0 => pc = "done")

C18_Witness ==
    /\ pc = "reason"
    /\ attempt = 2
    /\ FailedFetches = 1
    /\ sleeps = <<BackoffBase>>
    /\ io = [op |-> "fetch", get |-> "ConnectionError", render |-> "ok"]
    /\ created = 1
    /\ driver # None

\* ------------------------------------------------------ the submissions

\* a step in which submit_answer is called and returns or raises
SubmitStep == pc = "submit" /\ submitted' # submitted

\* C19: when the body of the response decodes to a dict, whatever the status
\* code, submit_answer returns it: no exception reaches the handlers, nothing
\* is slept, the attempt is not repeated, and solve_quiz chains to the dict's
\* url when it has one and returns the dict when it has none.
C19_StatusIgnored ==
    [][(SubmitStep /\ io'.body = "dict")
        => /\ caught' = None
           /\ sleeps' = sleeps
           /\ received' = received + 1
           /\ result' \in Results
           /\ IF Truthy(Get(result', "url"))
              THEN /\ pc' = "loop"
                   /\ current_url' = result'["url"]
                   /\ outcome' = outcome
              ELSE /\ pc' = "finally"
                   /\ outcome' = Returned(result')]_vars

C19_Witness ==
    /\ io.op = "submit"
    /\ io.status = 500
    /\ io.body = "dict"
    /\ pc = "loop"
    /\ attempt = 1
    /\ result = [correct |-> FALSE, url |-> "http://q/2"]
    /\ current_url = "http://q/2"
    /\ sleeps = <<>>

\* C20: every entry of the loop body, for a chained task as for a retry,
\* counts as one attempt, so at most max_retries posts are made; and when
\* the post of attempt max_retries returns a dict with a next url, the loop
\* ends there: the url is not fetched and solve_quiz returns the "Max
\* retries exceeded or timeout" error, not the dict.
C20_ChainSharesAttempts ==
    /\ [](Len(submitted) <= attempt /\ attempt <= max_retries)
    /\ [][pc' = "fetch" => attempt' = attempt + 1]_vars
    /\ [][(SubmitStep /\ io'.body = "dict" /\ attempt = max_retries
             /\ Truthy(Get(result', "url")))
            => pc' = "loop" /\ outcome' = NoOutcome]_vars
    /\ [][(pc = "loop" /\ attempt = max_retries)
            => /\ pc' = "finally"
               /\ outcome' = Returned(MaxAttemptsOrTimeout)
               /\ history' = history]_vars
    /\ TerminalQuiet

C20_Witness ==
    /\ pc = "done"
    /\ max_retries = 2
    /\ attempt = 2
    /\ fetched = <<QuizUrl, "http://q/2">>
    /\ submitted = fetched
    /\ io.op = "submit"
    /\ io.body = "dict"
    /\ result = [url |-> "http://q/3"]
    /\ outcome = Returned(MaxAttemptsOrTimeout)

====
